---- MODULE Spec2Model ----
(***************************************************************************)
(* Combination generation pipeline of the lotto prediction service:        *)
(*   RandomGenerator            (services/random_generator.py)             *)
(*   DuplicateChecker           (services/duplicate_checker.py)            *)
(*   SimplifiedPredictionService (services/simplified_prediction_service.py)*)
(*   AsyncDataService           (services/data_service.py), the provider   *)
(* Time is counted in hours (the cache TTL is timedelta(hours=1)).         *)
(***************************************************************************)
EXTENDS Integers, Sequences, FiniteSets, TLC

VARIABLES
    existing_combinations,  \* AsyncDataService.existing_combinations
    load_pc,                \* the await at which a load_historical_data call
                            \* is suspended ("none": no call in progress)
    winning_cache,          \* DuplicateChecker._winning_cache (None or a set)
    cache_timestamp,        \* DuplicateChecker._cache_timestamp (None or a time)
    now,                    \* the wall clock read by datetime.now()
    pc,                     \* position of the generate_predictions call
    num_predictions,        \* argument of the running generate_predictions call
    predictions,            \* local list of generate_predictions
    generated_combinations, \* local set of generate_predictions
    i,                      \* loop index of "for i in range(num_predictions)"
    retry_count,            \* local counter of _generate_single_prediction
    combination,            \* candidate in flight inside _generate_single_prediction
    outcome,                \* how the last generate_predictions call ended
    message,                \* message of the exception it raised
    returned,               \* value handed to the caller (None when it raised)
    in_sync_at_call,        \* observation: at the start of the call the cache was
                            \* missing, expired or equal to the provider's set
    sampler_called,         \* observation: generate_combination was invoked in this call
    checker_called,         \* observation: is_duplicate was invoked in this call
    reported_duplicate,     \* observation: is_duplicate answered True in this call
    last_query,             \* observation: argument of the last is_duplicate call
    last_answer,            \* observation: its return value
    last_fetch,             \* observation: what it did with the provider
    last_raised,            \* observation: an exception left the last call
    last_op,                \* observation: the last operation called on the index
    slot_checks,            \* observation: is_duplicate calls made for the current slot
    fetch_count,            \* observation: call count of get_existing_combinations
                            \* seen by the counting double of the provider
    provider_failed,        \* observation: one of those calls raised
    cache_cleared,          \* observation: clear_cache was called on the observed index
    pattern_input,          \* argument of an is_extreme_pattern call
    pattern_result,         \* its return value (None before the call)
    tasks                   \* the coroutines handed to asyncio.gather: for each
                            \* its state, operation, argument and result

vars == << existing_combinations, load_pc, winning_cache, cache_timestamp, now, pc,
           num_predictions, predictions, generated_combinations, i,
           retry_count, combination, outcome, message, returned,
           in_sync_at_call, sampler_called, checker_called, reported_duplicate,
           last_query, last_answer, last_fetch, last_raised, last_op,
           slot_checks, fetch_count, provider_failed, cache_cleared,
           pattern_input, pattern_result, tasks >>

provider_vars == << existing_combinations, load_pc >>
checker_vars == << winning_cache, cache_timestamp >>
call_vars == << pc, num_predictions, predictions, generated_combinations, i,
                retry_count, combination, outcome, message, returned,
                in_sync_at_call, sampler_called, checker_called,
                reported_duplicate, slot_checks >>
query_vars == << last_query, last_answer, last_fetch, last_raised, last_op >>
observer_vars == << fetch_count, provider_failed, cache_cleared >>
pattern_vars == << pattern_input, pattern_result >>
task_vars == << tasks >>

----------------------------------------------------------------------------
(* Python's None and an optional value *)
None == << >>
Some(x) == << x >>
Val(o) == o[1]

(* bounds of the model *)
MaxCount == 2
MaxNow == 2
MaxFetches == 3

(* program constants *)
max_retries == 100
cache_ttl == 1
MinPredictions == 1
MaxPredictions == 20

----------------------------------------------------------------------------
(* builtin sorted(): insertion into an ascending sequence *)
RECURSIVE insert_sorted(_, _)
insert_sorted(x, s) ==
    IF s = << >> THEN << x >>
    ELSE IF x <= Head(s) THEN << x >> \o s
         ELSE << Head(s) >> \o insert_sorted(x, Tail(s))

(* sorted() replaced by a copy that keeps the order of its argument *)
sorted_keeps_order(s) == s

RECURSIVE sorted(_)
sorted(s) ==
    IF s = << >> THEN << >> ELSE insert_sorted(Head(s), sorted(Tail(s)))

(* builtin sum() *)
RECURSIVE sum(_)
sum(s) == IF s = << >> THEN 0 ELSE Head(s) + sum(Tail(s))

(* sum(1 for n in combination if n % 2 == 1) *)
odd_count_of(s) == Cardinality({k \in 1..Len(s) : s[k] % 2 = 1})

max2(a, b) == IF a >= b THEN a ELSE b

(* the loop of is_extreme_pattern over i in range(5): k is i + 1 *)
RECURSIVE max_consecutive_from(_, _, _, _)
max_consecutive_from(sorted_combo, k, consecutive_count, max_consecutive) ==
    IF k > 5 THEN max_consecutive
    ELSE IF sorted_combo[k + 1] - sorted_combo[k] = 1
         THEN max_consecutive_from(sorted_combo, k + 1, consecutive_count + 1,
                                   max2(max_consecutive, consecutive_count + 2))
         ELSE max_consecutive_from(sorted_combo, k + 1, 0, max_consecutive)

gaps_of(sorted_combo) == [k \in 1..5 |-> sorted_combo[k + 1] - sorted_combo[k]]

(* sum(1 for n in combination if lo <= n <= hi) *)
in_range(lo, hi, s) == Cardinality({k \in 1..Len(s) : lo <= s[k] /\ s[k] <= hi})

ranges_of(s) ==
    { in_range(1, 10, s), in_range(11, 20, s), in_range(21, 30, s),
      in_range(31, 40, s), in_range(41, 45, s) }

(* is_extreme_pattern without the sum rule *)
is_extreme_pattern_no_sum(c) ==
    LET sorted_combo == sorted(c)
        max_consecutive == max_consecutive_from(sorted_combo, 1, 0, 0)
        gaps == gaps_of(sorted_combo)
        odd_count == odd_count_of(c)
    IN  IF max_consecutive >= 5 THEN TRUE
        ELSE IF Cardinality({gaps[k] : k \in 1..5}) = 1 /\ gaps[1] > 1 THEN TRUE
        ELSE IF odd_count = 0 \/ odd_count = 6 THEN TRUE
        ELSE IF \E r \in ranges_of(c) : r >= 5 THEN TRUE
        ELSE FALSE

(* a pattern test that finds every combination extreme *)
is_extreme_pattern_always(c) == TRUE

(* rule 1 of is_extreme_pattern: "max_consecutive >= 5" *)
long_run_rule(c) == max_consecutive_from(sorted(c), 1, 0, 0) >= 5

(* rule 2 of is_extreme_pattern: "len(set(gaps)) == 1 and gaps[0] > 1" *)
arithmetic_rule(c) ==
    LET gaps == gaps_of(sorted(c))
    IN  Cardinality({gaps[k] : k \in 1..5}) = 1 /\ gaps[1] > 1

(* is_extreme_pattern without the arithmetic progression rule *)
is_extreme_pattern_no_progression(c) ==
    LET sorted_combo == sorted(c)
        max_consecutive == max_consecutive_from(sorted_combo, 1, 0, 0)
        total_sum == sum(c)
        odd_count == odd_count_of(c)
    IN  IF max_consecutive >= 5 THEN TRUE
        ELSE IF total_sum < 80 \/ total_sum > 200 THEN TRUE
        ELSE IF odd_count = 0 \/ odd_count = 6 THEN TRUE
        ELSE IF \E r \in ranges_of(c) : r >= 5 THEN TRUE
        ELSE FALSE

(* is_extreme_pattern reading runs and gaps from the argument as given *)
is_extreme_pattern_as_given(c) ==
    LET sorted_combo == c
        max_consecutive == max_consecutive_from(sorted_combo, 1, 0, 0)
        gaps == gaps_of(sorted_combo)
        total_sum == sum(c)
        odd_count == odd_count_of(c)
    IN  IF max_consecutive >= 5 THEN TRUE
        ELSE IF Cardinality({gaps[k] : k \in 1..5}) = 1 /\ gaps[1] > 1 THEN TRUE
        ELSE IF total_sum < 80 \/ total_sum > 200 THEN TRUE
        ELSE IF odd_count = 0 \/ odd_count = 6 THEN TRUE
        ELSE IF \E r \in ranges_of(c) : r >= 5 THEN TRUE
        ELSE FALSE

(* RandomGenerator.is_extreme_pattern *)
is_extreme_pattern(c) ==
    LET sorted_combo == sorted(c)
        max_consecutive == max_consecutive_from(sorted_combo, 1, 0, 0)
        gaps == gaps_of(sorted_combo)
        total_sum == sum(c)
        odd_count == odd_count_of(c)
    IN  IF max_consecutive >= 5 THEN TRUE
        ELSE IF Cardinality({gaps[k] : k \in 1..5}) = 1 /\ gaps[1] > 1 THEN TRUE
        ELSE IF total_sum < 80 \/ total_sum > 200 THEN TRUE
        ELSE IF odd_count = 0 \/ odd_count = 6 THEN TRUE
        ELSE IF \E r \in ranges_of(c) : r >= 5 THEN TRUE
        ELSE FALSE

----------------------------------------------------------------------------
(* the outcomes of random.sample(range(1, 46), 6) the model draws from *)
ComboA == << 7, 14, 23, 28, 35, 42 >>
ComboB == << 3, 11, 19, 27, 34, 41 >>

SampleDraws ==
    { << 42, 7, 35, 14, 28, 23 >>,   \* ComboA, unsorted
      << 7, 14, 23, 28, 35, 42 >>,   \* ComboA
      << 41, 3, 27, 11, 34, 19 >>,   \* ComboB, unsorted
      << 40, 12, 9, 8, 11, 10 >>,    \* run of five: 8..12
      << 33, 5, 19, 40, 12, 26 >>,   \* arithmetic progression, gap 7
      << 30, 1, 12, 3, 20, 8 >>,     \* sum 74
      << 44, 2, 22, 8, 36, 14 >>,    \* all even
      << 35, 11, 20, 12, 17, 14 >> } \* five numbers in 11-20

(* the numbers the arguments of is_extreme_pattern are taken from *)
PatternNumbers ==
    { 1, 2, 5, 8, 9, 10, 11, 12, 13, 15, 20, 25, 30, 40, 41, 43, 45 }

(* the subsets of S that have k elements, each built from its smallest
   element upwards *)
RECURSIVE subsets_of_size(_, _)
subsets_of_size(S, k) ==
    IF k = 0 THEN { {} }
    ELSE UNION { { T \cup { x } : T \in subsets_of_size({ y \in S : y > x }, k - 1) } :
                 x \in S }

(* the numbers of a set as a list in ascending order *)
RECURSIVE ascending(_)
ascending(S) ==
    IF S = {} THEN << >>
    ELSE LET m == CHOOSE x \in S : \A y \in S : x <= y
         IN  << m >> \o ascending(S \ { m })

(* three orders in which a caller may list six numbers: ascending,
   descending and interleaved *)
orderings(S) ==
    LET a == ascending(S)
    IN  { a,
          [k \in 1..6 |-> a[7 - k]],
          << a[4], a[1], a[6], a[2], a[5], a[3] >> }

(* the arguments of is_extreme_pattern: every six distinct numbers of
   the given numbers in each of the three orders *)
PatternInputs(numbers) ==
    UNION { orderings(S) : S \in subsets_of_size(numbers, 6) }

(* every six numbers of 1..45 with five equal gaps, in each of the three
   orders *)
ProgressionInputs ==
    UNION { orderings({ p[1] + k * p[2] : k \in 0..5 }) :
            p \in { q \in (1..40) \X (1..8) : q[1] + 5 * q[2] <= 45 } }

(* the arguments of load_historical_data: the defaults, a range, a start
   below 1 and an end before the start *)
LoadArguments ==
    { [ start_no |-> 601, end_no |-> None ],
      [ start_no |-> 601, end_no |-> Some(602) ],
      [ start_no |-> 0, end_no |-> None ],
      [ start_no |-> 601, end_no |-> Some(600) ] }

(* the draw lists load_historical_data may read from the repository *)
HistoricalDraws ==
    { { << 42, 7, 35, 14, 28, 23 >> },
      { << 3, 11, 19, 27, 34, 41 >>, << 44, 36, 25, 16, 9, 4 >> } }

(* the arguments of generate_predictions: a Python type and a value *)
CountInputs ==
    [ type : {"int"}, val : (-1 .. MaxCount) \cup {MaxPredictions + 1} ]
    \cup { [type |-> "bool", val |-> 1], [type |-> "bool", val |-> 0],
           [type |-> "float", val |-> 2], [type |-> "str", val |-> 2] }

(* the counts of the generate_predictions calls handed to gather *)
GatherCounts == { [type |-> "int", val |-> 1], [type |-> "int", val |-> 2] }

(* the arguments of the is_duplicate calls handed to gather *)
GatherQueries ==
    { << 35, 7, 42, 14, 23, 28 >>, << 41, 3, 27, 11, 34, 19 >> }

(* the arguments of direct is_duplicate calls *)
QueryInputs ==
    { << >>,
      << 7, 14, 23, 28, 35 >>,
      << 7, 14, 23, 28, 35, 42, 45 >>,
      << 7, 14, 23, 28, 35, 42 >>,
      << 42, 35, 28, 23, 14, 7 >>,
      << 35, 7, 42, 14, 23, 28 >>,
      << 41, 3, 27, 11, 34, 19 >>,
      << 1, 2, 3, 4, 5, 6 >> }

----------------------------------------------------------------------------
(* LottoDraw.get_numbers_tuple *)
get_numbers_tuple(numbers) == sorted(numbers)

(* AsyncDataService.get_existing_combinations *)
get_existing_combinations == existing_combinations

(* the expiry test with an age of exactly the TTL counted as expired *)
cache_expired_at_ttl(cache, timestamp, t) ==
    \/ cache = None
    \/ timestamp = None
    \/ t - Val(timestamp) >= cache_ttl

(* the test "cache missing or expired" of _get_winning_combinations *)
cache_expired(cache, timestamp, t) ==
    \/ cache = None
    \/ timestamp = None
    \/ t - Val(timestamp) > cache_ttl

(* _get_winning_combinations that fetches without keeping what it fetched *)
get_winning_combinations_no_store(cache, timestamp, t, fetch_ok) ==
    IF cache_expired(cache, timestamp, t)
    THEN IF fetch_ok
         THEN [ raised |-> FALSE, cache |-> cache, timestamp |-> timestamp,
                fetch |-> "ok", result |-> get_existing_combinations ]
         ELSE [ raised |-> TRUE, cache |-> cache, timestamp |-> timestamp,
                fetch |-> "failed", result |-> {} ]
    ELSE [ raised |-> FALSE, cache |-> cache, timestamp |-> timestamp,
           fetch |-> "none", result |-> Val(cache) ]

(* _get_winning_combinations handing out the provider's present set while
   the snapshot is fresh *)
get_winning_combinations_live(cache, timestamp, t, fetch_ok) ==
    IF cache_expired(cache, timestamp, t)
    THEN IF fetch_ok
         THEN [ raised |-> FALSE, cache |-> Some(get_existing_combinations),
                timestamp |-> Some(t), fetch |-> "ok",
                result |-> get_existing_combinations ]
         ELSE [ raised |-> TRUE, cache |-> cache, timestamp |-> timestamp,
                fetch |-> "failed", result |-> {} ]
    ELSE [ raised |-> FALSE, cache |-> cache, timestamp |-> timestamp,
           fetch |-> "none", result |-> get_existing_combinations ]

(* _get_winning_combinations returning the stale snapshot when the provider
   raises *)
get_winning_combinations_fallback(cache, timestamp, t, fetch_ok) ==
    IF cache_expired(cache, timestamp, t)
    THEN IF fetch_ok
         THEN [ raised |-> FALSE, cache |-> Some(get_existing_combinations),
                timestamp |-> Some(t), fetch |-> "ok",
                result |-> get_existing_combinations ]
         ELSE IF cache # None
         THEN [ raised |-> FALSE, cache |-> cache, timestamp |-> timestamp,
                fetch |-> "failed", result |-> Val(cache) ]
         ELSE [ raised |-> TRUE, cache |-> cache, timestamp |-> timestamp,
                fetch |-> "failed", result |-> {} ]
    ELSE [ raised |-> FALSE, cache |-> cache, timestamp |-> timestamp,
           fetch |-> "none", result |-> Val(cache) ]

(* _get_winning_combinations setting the timestamp before it calls the
   provider *)
get_winning_combinations_stamp_first(cache, timestamp, t, fetch_ok) ==
    IF cache_expired(cache, timestamp, t)
    THEN IF fetch_ok
         THEN [ raised |-> FALSE, cache |-> Some(get_existing_combinations),
                timestamp |-> Some(t), fetch |-> "ok",
                result |-> get_existing_combinations ]
         ELSE [ raised |-> TRUE, cache |-> cache, timestamp |-> Some(t),
                fetch |-> "failed", result |-> {} ]
    ELSE [ raised |-> FALSE, cache |-> cache, timestamp |-> timestamp,
           fetch |-> "none", result |-> Val(cache) ]

(* _get_winning_combinations storing the provider's set in the cache on
   every call, refresh or not *)
get_winning_combinations_rewrite(cache, timestamp, t, fetch_ok) ==
    IF cache_expired(cache, timestamp, t)
    THEN IF fetch_ok
         THEN [ raised |-> FALSE, cache |-> Some(get_existing_combinations),
                timestamp |-> Some(t), fetch |-> "ok",
                result |-> get_existing_combinations ]
         ELSE [ raised |-> TRUE, cache |-> cache, timestamp |-> timestamp,
                fetch |-> "failed", result |-> {} ]
    ELSE [ raised |-> FALSE, cache |-> Some(get_existing_combinations),
           timestamp |-> timestamp, fetch |-> "none", result |-> Val(cache) ]

(* _get_winning_combinations asking the provider on every call *)
get_winning_combinations_uncached(cache, timestamp, t, fetch_ok) ==
    IF fetch_ok
    THEN [ raised |-> FALSE, cache |-> Some(get_existing_combinations),
           timestamp |-> Some(t), fetch |-> "ok",
           result |-> get_existing_combinations ]
    ELSE [ raised |-> TRUE, cache |-> cache, timestamp |-> timestamp,
           fetch |-> "failed", result |-> {} ]

(* _get_winning_combinations answering with an empty set when the provider
   raises *)
get_winning_combinations_swallow(cache, timestamp, t, fetch_ok) ==
    IF cache_expired(cache, timestamp, t)
    THEN IF fetch_ok
         THEN [ raised |-> FALSE, cache |-> Some(get_existing_combinations),
                timestamp |-> Some(t), fetch |-> "ok",
                result |-> get_existing_combinations ]
         ELSE [ raised |-> FALSE, cache |-> cache, timestamp |-> timestamp,
                fetch |-> "failed", result |-> {} ]
    ELSE [ raised |-> FALSE, cache |-> cache, timestamp |-> timestamp,
           fetch |-> "none", result |-> Val(cache) ]

(* DuplicateChecker._get_winning_combinations; fetch_ok is whether the
   provider call returns (TRUE) or raises (FALSE) *)
get_winning_combinations(cache, timestamp, t, fetch_ok) ==
    IF cache_expired(cache, timestamp, t)
    THEN IF fetch_ok
         THEN [ raised |-> FALSE, cache |-> Some(get_existing_combinations),
                timestamp |-> Some(t), fetch |-> "ok",
                result |-> get_existing_combinations ]
         ELSE [ raised |-> TRUE, cache |-> cache, timestamp |-> timestamp,
                fetch |-> "failed", result |-> {} ]
    ELSE [ raised |-> FALSE, cache |-> cache, timestamp |-> timestamp,
           fetch |-> "none", result |-> Val(cache) ]

(* a length guard that only rejects the empty argument *)
invalid_length_empty_only(c) == c = << >>

(* the length guard of is_duplicate *)
invalid_length(c) == c = << >> \/ Len(c) # 6

(* a lookup key that is not sorted *)
combo_tuple_unsorted(c) == c

(* the key is_duplicate looks up *)
combo_tuple_of(c) == sorted(c)

(* is_duplicate answering False when the provider raises *)
is_duplicate_fail_open(c, cache, timestamp, t, fetch_ok) ==
    IF invalid_length(c)
    THEN [ answer |-> TRUE, cache |-> cache, timestamp |-> timestamp,
           fetch |-> "none", raised |-> FALSE ]
    ELSE LET combo_tuple == combo_tuple_of(c)
             w == get_winning_combinations(cache, timestamp, t, fetch_ok)
         IN  IF w.raised
             THEN [ answer |-> FALSE, cache |-> w.cache,
                    timestamp |-> w.timestamp, fetch |-> w.fetch,
                    raised |-> FALSE ]
             ELSE [ answer |-> combo_tuple \in w.result, cache |-> w.cache,
                    timestamp |-> w.timestamp, fetch |-> w.fetch,
                    raised |-> FALSE ]

(* is_duplicate testing membership in the snapshot held before the
   refresh *)
is_duplicate_pre_refresh(c, cache, timestamp, t, fetch_ok) ==
    IF invalid_length(c)
    THEN [ answer |-> TRUE, cache |-> cache, timestamp |-> timestamp,
           fetch |-> "none", raised |-> FALSE ]
    ELSE LET combo_tuple == combo_tuple_of(c)
             w == get_winning_combinations(cache, timestamp, t, fetch_ok)
         IN  IF w.raised
             THEN [ answer |-> TRUE, cache |-> w.cache,
                    timestamp |-> w.timestamp, fetch |-> w.fetch,
                    raised |-> FALSE ]
             ELSE [ answer |-> cache # None /\ combo_tuple \in Val(cache),
                    cache |-> w.cache, timestamp |-> w.timestamp,
                    fetch |-> w.fetch, raised |-> FALSE ]

(* is_duplicate without its "except Exception": the provider's exception
   leaves the call *)
is_duplicate_propagates(c, cache, timestamp, t, fetch_ok) ==
    IF invalid_length(c)
    THEN [ answer |-> TRUE, cache |-> cache, timestamp |-> timestamp,
           fetch |-> "none", raised |-> FALSE ]
    ELSE LET combo_tuple == combo_tuple_of(c)
             w == get_winning_combinations(cache, timestamp, t, fetch_ok)
         IN  IF w.raised
             THEN [ answer |-> FALSE, cache |-> w.cache,
                    timestamp |-> w.timestamp, fetch |-> w.fetch,
                    raised |-> TRUE ]
             ELSE [ answer |-> combo_tuple \in w.result, cache |-> w.cache,
                    timestamp |-> w.timestamp, fetch |-> w.fetch,
                    raised |-> FALSE ]

(* DuplicateChecker.is_duplicate; raised tells whether an exception leaves
   the call, which the "except Exception" clause prevents *)
is_duplicate(c, cache, timestamp, t, fetch_ok) ==
    IF invalid_length(c)
    THEN [ answer |-> TRUE, cache |-> cache, timestamp |-> timestamp,
           fetch |-> "none", raised |-> FALSE ]
    ELSE LET combo_tuple == combo_tuple_of(c)
             w == get_winning_combinations(cache, timestamp, t, fetch_ok)
         IN  IF w.raised
             THEN [ answer |-> TRUE, cache |-> w.cache,
                    timestamp |-> w.timestamp, fetch |-> w.fetch,
                    raised |-> FALSE ]
             ELSE [ answer |-> combo_tuple \in w.result, cache |-> w.cache,
                    timestamp |-> w.timestamp, fetch |-> w.fetch,
                    raised |-> FALSE ]

(* a membership test on the provider's set that bypasses the cache, as
   AsyncDataService.is_new_combination does *)
is_new_combination_uncached(c, cache, timestamp, t, fetch_ok) ==
    [ answer |-> ~ invalid_length(c) /\ sorted(c) \notin existing_combinations,
      cache |-> cache, timestamp |-> timestamp, fetch |-> "none",
      raised |-> FALSE ]

(* DuplicateChecker.is_new_combination *)
is_new_combination(c, cache, timestamp, t, fetch_ok) ==
    LET d == is_duplicate(c, cache, timestamp, t, fetch_ok)
    IN  [ d EXCEPT !.answer = ~ d.answer ]

(* the input validation of generate_predictions *)
is_int(n) == n.type \in {"int", "bool"}

(* a range test without the lower bound *)
count_in_range_no_lower(n) == n.val <= MaxPredictions

count_in_range(n) == MinPredictions <= n.val /\ n.val <= MaxPredictions

(* an in-batch test that never finds a repetition *)
in_batch_never(combo_tuple, generated) == FALSE

(* an in-batch test with the condition inverted *)
in_batch_inverted(combo_tuple, generated) == combo_tuple \notin generated

(* in-batch test of _generate_single_prediction *)
in_batch(combo_tuple, generated) == combo_tuple \in generated

(* a loop test that allows one attempt too many *)
may_retry_one_more(count) == count <= max_retries

(* loop test "while retry_count < self.max_retries" *)
may_retry(count) == count < max_retries

(* a loop over range(num_predictions - 1) *)
has_next_slot_one_short(k, n) == k + 2 < n.val

(* "for i in range(num_predictions)": another iteration follows index k *)
has_next_slot(k, n) == k + 1 < n.val

(* a retry counter carried over from the previous slot *)
slot_start_retry_carried(count) == count

(* "retry_count = 0" on entry of _generate_single_prediction; count is the
   counter the previous slot ended with *)
slot_start_retry(count) == 0

(* a rejection that is not counted *)
next_retry_count_same(count) == count

(* "retry_count += 1" *)
next_retry_count(count) == count + 1

(* a set of generated combinations that starts with what other calls
   returned *)
new_generated_combinations_shared(others) == others

(* "generated_combinations = set()" at the start of generate_predictions;
   others are the combinations other calls have returned *)
new_generated_combinations(others) == {}

(* an accepted combination left out of the set *)
add_generated_skipped(generated, combo_tuple) == generated

(* "generated_combinations.add(tuple(combination))" *)
add_generated(generated, combo_tuple) == generated \cup { combo_tuple }

(* a new prediction put in front of the list *)
append_prediction_in_front(preds, p) == << p >> \o preds

(* "predictions.append(prediction)" *)
append_prediction(preds, p) == Append(preds, p)

(* LottoPrediction(combination, score=0.0, common_with_last=0) *)
LottoPrediction(c) == [ combination |-> c, score |-> 0, common_with_last |-> 0 ]

(* value handed to the caller when PredictionGenerationError is raised *)
raised_value(preds) == None

----------------------------------------------------------------------------
(* the coroutines of one asyncio.gather call *)
TaskIds == { 1, 2 }

(* a slot of gather that holds no coroutine *)
NoTask ==
    [ state |-> "none", op |-> "none", arg |-> None, out |-> None,
      gathered |-> None ]

(* a coroutine object handed to gather and not yet run; gathered observes
   the hour of the gather call and whether the cache was then missing or
   expired *)
PendingTask(op, arg) ==
    [ state |-> "pending", op |-> op, arg |-> Some(arg), out |-> None,
      gathered |-> Some([ at |-> now,
                          expired |-> cache_expired(winning_cache,
                                                    cache_timestamp, now) ]) ]

(* no coroutine of an earlier gather is waiting or running *)
tasks_quiet == \A t \in TaskIds : tasks[t].state \in { "none", "done" }

(* the combinations returned by the generate_predictions calls of this
   gather that have finished *)
returned_by_tasks ==
    UNION { { Val(tasks[t].out).returned[k].combination :
                  k \in 1..Len(Val(tasks[t].out).returned) } :
            t \in { u \in TaskIds : /\ tasks[u].state = "done"
                                     /\ tasks[u].op = "generate_predictions" } }

(* the services after construction *)
InitService ==
    /\ existing_combinations = {}
    /\ load_pc = "none"
    /\ winning_cache = None
    /\ cache_timestamp = None
    /\ now = 0
    /\ pc = "idle"
    /\ num_predictions = None
    /\ predictions = << >>
    /\ generated_combinations = {}
    /\ i = 0
    /\ retry_count = 0
    /\ combination = None
    /\ outcome = "none"
    /\ message = ""
    /\ returned = None
    /\ in_sync_at_call = TRUE
    /\ sampler_called = FALSE
    /\ checker_called = FALSE
    /\ reported_duplicate = FALSE
    /\ last_query = None
    /\ last_answer = FALSE
    /\ last_fetch = "none"
    /\ last_raised = FALSE
    /\ last_op = "none"
    /\ slot_checks = 0
    /\ fetch_count = 0
    /\ provider_failed = FALSE
    /\ cache_cleared = FALSE
    /\ tasks = [t \in TaskIds |-> NoTask]

Init ==
    /\ InitService
    /\ pattern_input = None
    /\ pattern_result = None

(* the services after construction and an argument for is_extreme_pattern *)
InitPattern ==
    /\ InitService
    /\ pattern_input \in { Some(c) : c \in PatternInputs(PatternNumbers) }
    /\ pattern_result = None

no_query == /\ last_query' = None
            /\ last_answer' = FALSE
            /\ last_fetch' = "none"
            /\ last_raised' = FALSE
            /\ last_op' = "none"

(* the clock advances by an hour *)
Tick ==
    /\ now < MaxNow
    /\ now' = now + 1
    /\ UNCHANGED << provider_vars, checker_vars, call_vars, query_vars,
                    observer_vars, pattern_vars, task_vars >>

(* the input validation of load_historical_data: "start_no <= 0" and
   "end_no is not None and end_no < start_no" raise ValidationError *)
load_arguments_valid(a) ==
    /\ a.start_no > 0
    /\ a.end_no # None => Val(a.end_no) >= a.start_no

(* AsyncDataService.load_historical_data from the call to its first await:
   with end_no None the coroutine is suspended in
   "await AsyncLottoRepository.get_last_draw()", with an end_no in
   "await AsyncLottoRepository.get_draws_by_range(start_no, end_no)";
   arguments that fail the validation end the call at once.  The event
   loop runs this and the two stretches below only between other calls,
   none of which suspends. *)
call_load_historical_data ==
    /\ pc = "idle"
    /\ load_pc = "none"
    /\ \E a \in LoadArguments :
          load_pc' = IF ~ load_arguments_valid(a) THEN "none"
                     ELSE IF a.end_no = None THEN "get_last_draw"
                     ELSE "get_draws_by_range"
    /\ no_query
    /\ UNCHANGED << existing_combinations, checker_vars, now, call_vars,
                    observer_vars, pattern_vars, task_vars >>

(* load_historical_data resumed from "await get_last_draw()": with a last
   draw it goes on to "await get_draws_by_range(...)", without one it
   returns False, and an exception of the repository is raised again *)
resume_get_last_draw ==
    /\ pc = "idle"
    /\ load_pc = "get_last_draw"
    /\ \E last_draw_data \in BOOLEAN :
          load_pc' = IF last_draw_data THEN "get_draws_by_range" ELSE "none"
    /\ no_query
    /\ UNCHANGED << existing_combinations, checker_vars, now, call_vars,
                    observer_vars, pattern_vars, task_vars >>

(* load_historical_data resumed from "await get_draws_by_range(...)" to its
   return: with at least one valid draw it replaces existing_combinations,
   with none (or with an exception of the repository) it leaves the set as
   it is *)
load_historical_data ==
    /\ pc = "idle"
    /\ load_pc = "get_draws_by_range"
    /\ \E draws \in HistoricalDraws \cup { {} } :
          existing_combinations' =
              IF draws = {} THEN existing_combinations
              ELSE { get_numbers_tuple(d) : d \in draws }
    /\ load_pc' = "none"
    /\ no_query
    /\ UNCHANGED << checker_vars, now, call_vars, observer_vars, pattern_vars, task_vars >>

(* clear_cache dropping the snapshot but keeping its timestamp *)
clear_cache_body_cache_only ==
    /\ winning_cache' = None
    /\ cache_timestamp' = cache_timestamp
    /\ last_query' = None
    /\ last_answer' = FALSE
    /\ last_fetch' = "none"
    /\ last_raised' = FALSE
    /\ last_op' = "clear_cache"

(* the body of DuplicateChecker.clear_cache *)
clear_cache_body ==
    /\ winning_cache' = None
    /\ cache_timestamp' = None
    /\ last_query' = None
    /\ last_answer' = FALSE
    /\ last_fetch' = "none"
    /\ last_raised' = FALSE
    /\ last_op' = "clear_cache"

(* DuplicateChecker.clear_cache *)
clear_cache ==
    /\ pc = "idle"
    /\ clear_cache_body
    /\ UNCHANGED << provider_vars, now, call_vars, observer_vars, pattern_vars, task_vars >>

(* the effect of a direct call whose result is r on the index and on what
   the caller sees *)
index_call(op, q, r) ==
    /\ winning_cache' = r.cache
    /\ cache_timestamp' = r.timestamp
    /\ last_query' = Some(q)
    /\ last_answer' = r.answer
    /\ last_fetch' = r.fetch
    /\ last_raised' = r.raised
    /\ last_op' = op

(* a direct call of DuplicateChecker.is_duplicate *)
query_is_duplicate ==
    /\ pc = "idle"
    /\ \E q \in QueryInputs, fetch_ok \in BOOLEAN :
          index_call("is_duplicate", q,
                     is_duplicate(q, winning_cache, cache_timestamp, now, fetch_ok))
    /\ UNCHANGED << provider_vars, now, call_vars, observer_vars, pattern_vars, task_vars >>

(* what the counting double of the provider records during a call whose
   result is r *)
provider_double(r) ==
    /\ r.fetch # "none" => fetch_count < MaxFetches
    /\ fetch_count' = IF r.fetch # "none" THEN fetch_count + 1 ELSE fetch_count
    /\ provider_failed' = (provider_failed \/ r.fetch = "failed")
    /\ UNCHANGED cache_cleared

(* DuplicateChecker.clear_cache on the index whose provider is counted *)
counted_clear_cache ==
    /\ pc = "idle"
    /\ clear_cache_body
    /\ cache_cleared' = TRUE
    /\ UNCHANGED << provider_vars, now, call_vars, fetch_count,
                    provider_failed, pattern_vars, task_vars >>

(* DuplicateChecker.is_duplicate on the index whose provider is counted *)
counted_is_duplicate ==
    /\ pc = "idle"
    /\ \E q \in QueryInputs, fetch_ok \in BOOLEAN :
          LET r == is_duplicate(q, winning_cache, cache_timestamp, now, fetch_ok)
          IN  /\ index_call("is_duplicate", q, r)
              /\ provider_double(r)
    /\ UNCHANGED << provider_vars, now, call_vars, pattern_vars, task_vars >>

(* DuplicateChecker.is_new_combination on the index whose provider is counted *)
counted_is_new_combination ==
    /\ pc = "idle"
    /\ \E q \in QueryInputs, fetch_ok \in BOOLEAN :
          LET r == is_new_combination(q, winning_cache, cache_timestamp, now,
                                      fetch_ok)
          IN  /\ index_call("is_new_combination", q, r)
              /\ provider_double(r)
    /\ UNCHANGED << provider_vars, now, call_vars, pattern_vars, task_vars >>

(* generate_predictions(n) up to the first call of
   _generate_single_prediction *)
begin_generate_predictions(n) ==
    /\ num_predictions' = Some(n)
    /\ IF ~ is_int(n)
       THEN /\ pc' = "done"
            /\ outcome' = "ValidationError"
            /\ message' = "must be an integer"
       ELSE IF ~ count_in_range(n)
       THEN /\ pc' = "done"
            /\ outcome' = "ValidationError"
            /\ message' = "must be between 1 and 20"
       ELSE /\ pc' = "sample"
            /\ outcome' = "none"
            /\ message' = ""
    /\ predictions' = << >>
    /\ generated_combinations' = new_generated_combinations(returned_by_tasks)
    /\ i' = 0
    /\ retry_count' = slot_start_retry(retry_count)
    /\ slot_checks' = 0
    /\ combination' = None
    /\ returned' = None
    /\ in_sync_at_call' = ( \/ cache_expired(winning_cache, cache_timestamp, now)
                            \/ Val(winning_cache) = existing_combinations )
    /\ sampler_called' = FALSE
    /\ checker_called' = FALSE
    /\ reported_duplicate' = FALSE
    /\ no_query
    /\ UNCHANGED << provider_vars, checker_vars, now, observer_vars,
                    pattern_vars >>

(* a call of generate_predictions by a caller that awaits it *)
generate_predictions ==
    /\ pc = "idle"
    /\ \E n \in CountInputs : begin_generate_predictions(n)
    /\ UNCHANGED task_vars

(* "self.is_extreme_pattern(combination)" of generate_combination for each
   outcome of random.sample, the combination being the sorted outcome *)
draw_is_extreme == [d \in SampleDraws |-> is_extreme_pattern(sorted(d))]

(* one iteration of the "while True" loop of generate_combination *)
generate_combination ==
    /\ pc = "sample"
    /\ \E d \in SampleDraws :
          LET c == sorted(d)
          IN  IF ~ draw_is_extreme[d]
              THEN /\ combination' = Some(c)
                   /\ pc' = "check"
              ELSE /\ combination' = None
                   /\ pc' = "sample"
    /\ sampler_called' = TRUE
    /\ no_query
    /\ UNCHANGED << provider_vars, checker_vars, now, num_predictions,
                    predictions, generated_combinations, i, retry_count,
                    outcome, message, returned, in_sync_at_call,
                    checker_called, reported_duplicate, slot_checks,
                    observer_vars, pattern_vars, task_vars >>

(* "retry_count += 1; continue" and the loop test, raising when exhausted *)
retry ==
    /\ retry_count' = next_retry_count(retry_count)
    /\ combination' = None
    /\ IF may_retry(next_retry_count(retry_count))
       THEN /\ pc' = "sample"
            /\ UNCHANGED << outcome, message, returned >>
       ELSE /\ pc' = "done"
            /\ outcome' = "PredictionGenerationError"
            /\ message' = "max retries exceeded"
            /\ returned' = raised_value(predictions)
    /\ UNCHANGED << num_predictions, predictions, generated_combinations, i >>

(* "except Exception as e: raise PredictionGenerationError(...)" of
   generate_predictions *)
wrap_exception ==
    /\ pc' = "done"
    /\ outcome' = "PredictionGenerationError"
    /\ message' = "error during generation"
    /\ returned' = raised_value(predictions)
    /\ combination' = None
    /\ UNCHANGED << num_predictions, predictions, generated_combinations, i,
                    retry_count >>

(* the historical check of _generate_single_prediction *)
check_historical ==
    /\ pc = "check"
    /\ \E fetch_ok \in BOOLEAN :
          LET r == is_duplicate(Val(combination), winning_cache,
                                cache_timestamp, now, fetch_ok)
          IN  /\ index_call("is_duplicate", Val(combination), r)
              /\ checker_called' = TRUE
              /\ reported_duplicate' = (reported_duplicate \/ r.answer)
              /\ IF r.raised
                 THEN wrap_exception
                 ELSE IF r.answer
                 THEN retry
                 ELSE /\ pc' = "batch"
                      /\ UNCHANGED << num_predictions, predictions,
                                      generated_combinations, i, retry_count,
                                      combination, outcome, message, returned >>
    /\ slot_checks' = slot_checks + 1
    /\ UNCHANGED << provider_vars, now, in_sync_at_call, sampler_called,
                    observer_vars, pattern_vars, task_vars >>

(* the in-batch check of _generate_single_prediction, and for an accepted
   combination the rest of the loop body of generate_predictions *)
check_batch ==
    /\ pc = "batch"
    /\ IF in_batch(Val(combination), generated_combinations)
       THEN /\ retry
            /\ UNCHANGED slot_checks
       ELSE /\ generated_combinations' =
                   add_generated(generated_combinations, Val(combination))
            /\ predictions' =
                   append_prediction(predictions, LottoPrediction(Val(combination)))
            /\ combination' = None
            /\ IF has_next_slot(i, Val(num_predictions))
               THEN /\ i' = i + 1
                    /\ retry_count' = slot_start_retry(retry_count)
                    /\ slot_checks' = 0
                    /\ pc' = "sample"
                    /\ UNCHANGED << outcome, message, returned >>
               ELSE /\ i' = i
                    /\ retry_count' = retry_count
                    /\ slot_checks' = slot_checks
                    /\ pc' = "done"
                    /\ outcome' = "ok"
                    /\ message' = ""
                    /\ returned' = Some(predictions')
            /\ UNCHANGED num_predictions
    /\ no_query
    /\ UNCHANGED << provider_vars, checker_vars, now, in_sync_at_call,
                    sampler_called, checker_called, reported_duplicate,
                    observer_vars, pattern_vars, task_vars >>

(* the call has returned or raised: its frame is gone *)
drop_frame ==
    /\ pc' = "idle"
    /\ num_predictions' = None
    /\ predictions' = << >>
    /\ generated_combinations' = {}
    /\ i' = 0
    /\ retry_count' = 0
    /\ slot_checks' = 0
    /\ combination' = None
    /\ outcome' = "none"
    /\ message' = ""
    /\ returned' = None
    /\ in_sync_at_call' = TRUE
    /\ sampler_called' = FALSE
    /\ checker_called' = FALSE
    /\ reported_duplicate' = FALSE
    /\ no_query
    /\ UNCHANGED << provider_vars, checker_vars, now, observer_vars,
                    pattern_vars >>

(* the caller takes the result or the exception *)
collect ==
    /\ pc = "done"
    /\ drop_frame
    /\ UNCHANGED task_vars

Next ==
    \/ Tick
    \/ call_load_historical_data
    \/ resume_get_last_draw
    \/ load_historical_data
    \/ clear_cache
    \/ query_is_duplicate
    \/ generate_predictions
    \/ generate_combination
    \/ check_historical
    \/ check_batch
    \/ collect

Spec == Init /\ [][Next]_vars

(* the duplicate index alone: direct queries, cache clearing, reloads of
   the provider's data and the passing of time *)
NextIndex ==
    \/ Tick
    \/ call_load_historical_data
    \/ resume_get_last_draw
    \/ load_historical_data
    \/ clear_cache
    \/ query_is_duplicate

SpecIndex == Init /\ [][NextIndex]_vars

(* the duplicate index over a provider double that counts its calls and may
   be told to raise, as the unit tests of the index set it up *)
NextCounted ==
    \/ Tick
    \/ call_load_historical_data
    \/ resume_get_last_draw
    \/ load_historical_data
    \/ counted_clear_cache
    \/ counted_is_duplicate
    \/ counted_is_new_combination

SpecCounted == Init /\ [][NextCounted]_vars

(* an iteration of generate_combination that returns its draw *)
draw_accepted == generate_combination /\ pc' = "check"

(* an iteration of generate_combination that drops its draw and loops *)
draw_rejected == generate_combination /\ pc' = "sample"

(* generate_predictions calls on a service whose provider holds no draws,
   with a random source that is fair: random.sample draws every
   combination with the same positive probability, so a draw that passes
   the pattern test is not postponed forever *)
NextSampler ==
    \/ generate_predictions
    \/ generate_combination
    \/ check_historical
    \/ check_batch
    \/ collect

SpecSampler == Init /\ [][NextSampler]_vars /\ WF_vars(draw_accepted)

(* asyncio.gather(is_duplicate(q1), is_duplicate(q2)) on the event loop:
   both coroutines become tasks *)
gather_is_duplicate ==
    /\ pc = "idle"
    /\ tasks_quiet
    /\ \E q \in [TaskIds -> GatherQueries] :
          tasks' = [t \in TaskIds |-> PendingTask("is_duplicate", q[t])]
    /\ no_query
    /\ UNCHANGED << provider_vars, checker_vars, now, call_vars, observer_vars,
                    pattern_vars >>

(* the event loop runs the task of an is_duplicate call: the coroutine and
   the _get_winning_combinations coroutine it awaits contain no awaitable
   that suspends (the provider call is a plain call), so the task runs from
   its first line to its return before another task is run *)
run_is_duplicate(t) ==
    /\ pc = "idle"
    /\ tasks[t].state = "pending"
    /\ tasks[t].op = "is_duplicate"
    /\ \E fetch_ok \in BOOLEAN :
          LET q == Val(tasks[t].arg)
              r == is_duplicate(q, winning_cache, cache_timestamp, now, fetch_ok)
          IN  /\ index_call("is_duplicate", q, r)
              /\ tasks' = [tasks EXCEPT
                              ![t].state = "done",
                              ![t].out = Some([ answer |-> r.answer,
                                                fetch |-> r.fetch,
                                                at |-> now ])]
    /\ UNCHANGED << provider_vars, now, call_vars, observer_vars, pattern_vars >>

(* concurrent queries of the duplicate index from one event loop *)
NextGather ==
    \/ Tick
    \/ call_load_historical_data
    \/ resume_get_last_draw
    \/ load_historical_data
    \/ gather_is_duplicate
    \/ \E t \in TaskIds : run_is_duplicate(t)

SpecGather == Init /\ [][NextGather]_vars

(* asyncio.gather(generate_predictions(n1), generate_predictions(n2)) on
   the event loop: both coroutines become tasks *)
gather_generate_predictions ==
    /\ pc = "idle"
    /\ tasks_quiet
    /\ \E n \in [TaskIds -> GatherCounts] :
          tasks' = [t \in TaskIds |-> PendingTask("generate_predictions", n[t])]
    /\ no_query
    /\ UNCHANGED << provider_vars, checker_vars, now, call_vars, observer_vars,
                    pattern_vars >>

(* the event loop starts the task of a generate_predictions call: none of
   the coroutines it awaits (_generate_single_prediction, is_duplicate,
   _get_winning_combinations) suspends, so no other task runs before this
   call has returned or raised *)
start_generate_predictions(t) ==
    /\ pc = "idle"
    /\ tasks[t].state = "pending"
    /\ tasks[t].op = "generate_predictions"
    /\ begin_generate_predictions(Val(tasks[t].arg))
    /\ tasks' = [tasks EXCEPT ![t].state = "running"]

(* the running call returns or raises and its task is done *)
return_generate_predictions(t) ==
    /\ pc = "done"
    /\ tasks[t].state = "running"
    /\ drop_frame
    /\ tasks' = [tasks EXCEPT
                    ![t].state = "done",
                    ![t].out = Some([ outcome |-> outcome,
                                      returned |-> IF returned = None
                                                   THEN << >>
                                                   ELSE Val(returned) ])]

(* concurrent generate_predictions calls on one service from one event
   loop *)
NextCalls ==
    \/ call_load_historical_data
    \/ resume_get_last_draw
    \/ load_historical_data
    \/ gather_generate_predictions
    \/ \E t \in TaskIds : start_generate_predictions(t)
    \/ generate_combination
    \/ check_historical
    \/ check_batch
    \/ \E t \in TaskIds : return_generate_predictions(t)

SpecCalls == Init /\ [][NextCalls]_vars

(* the services after construction and an equal-gap argument for
   is_extreme_pattern *)
InitProgression ==
    /\ InitService
    /\ pattern_input \in { Some(c) : c \in ProgressionInputs }
    /\ pattern_result = None

(* a call of RandomGenerator.is_extreme_pattern *)
check_pattern ==
    /\ pattern_input # None
    /\ pattern_result' = Some(is_extreme_pattern(Val(pattern_input)))
    /\ UNCHANGED << provider_vars, checker_vars, now, call_vars, query_vars,
                    observer_vars, pattern_input, task_vars >>

(* the pattern filter alone, called on every argument of PatternInputs *)
NextPattern == check_pattern

SpecPattern == InitPattern /\ [][NextPattern]_vars

(* the pattern filter called on every argument of ProgressionInputs *)
SpecProgression == InitProgression /\ [][NextPattern]_vars

----------------------------------------------------------------------------
(* vocabulary of the properties *)
Numbers(c) == { c[k] : k \in 1..Len(c) }

Finished == pc = "done"

Succeeded == pc = "done" /\ outcome = "ok"

Requested == Val(num_predictions)

ValidCount(n) == n.type \in {"int", "bool"} /\ 1 <= n.val /\ n.val <= 20

ReturnedCombinations ==
    { Val(returned)[k].combination : k \in 1..Len(Val(returned)) }

InFlight ==
    IF pc \in {"check", "batch"} THEN { Val(combination) } ELSE {}

Accepted == { predictions[k].combination : k \in 1..Len(predictions) }

----------------------------------------------------------------------------
(* C1: a generate_predictions call that returns normally for a count in
   1..20 returns exactly that many combinations; a call with such a count
   ends either that way or by raising, and then it returns nothing. *)
C1_ExactCount ==
    /\ Succeeded =>
          /\ returned # None
          /\ ValidCount(Requested)
          /\ Len(Val(returned)) = Requested.val
    /\ (Finished /\ ValidCount(Requested) /\ ~ Succeeded) =>
          /\ outcome = "PredictionGenerationError"
          /\ returned = None

C1_Witness ==
    /\ Succeeded
    /\ Requested.val = 2
    /\ Len(Val(returned)) = 2

(* C2: the combinations of a returned batch are pairwise distinct as sets. *)
C2_BatchUnique ==
    Succeeded =>
        \A a, b \in 1..Len(Val(returned)) :
            a # b => Numbers(Val(returned)[a].combination)
                       # Numbers(Val(returned)[b].combination)

(* a batch of two returned after the second slot rejected a candidate that
   the historical index had passed, i.e. an in-batch repetition *)
C2_Witness ==
    /\ Succeeded
    /\ Len(Val(returned)) = 2
    /\ retry_count >= 1
    /\ ~ reported_duplicate

(* C3 as claimed: no returned combination is a member of the set the
   provider holds at the time of the call, whatever the state of the cache.
   (The provider's set is only replaced between calls, so the set at the end
   of the call is the set at its start.) *)
C3_Original ==
    Succeeded => ReturnedCombinations \cap existing_combinations = {}

(* C3 amended: no returned combination is a member of the provider's set at
   the time of the call when, at the start of the call, the cache is empty,
   expired, or equal to the provider's set. *)
C3_HistoricalExclusion ==
    (Succeeded /\ in_sync_at_call) =>
        ReturnedCombinations \cap existing_combinations = {}

(* a batch returned while the provider holds historical combinations and a
   candidate was rejected as a historical duplicate *)
C3_Witness ==
    /\ Succeeded
    /\ in_sync_at_call
    /\ existing_combinations # {}
    /\ reported_duplicate
    /\ winning_cache = Some(existing_combinations)

(* C4: every combination handed out by generate_combination, and every
   combination of a batch, has exactly 6 values, all in 1..45, in strictly
   ascending order (hence distinct). *)
StructurallyValid(c) ==
    /\ Len(c) = 6
    /\ \A k \in 1..6 : c[k] \in 1..45
    /\ \A k \in 1..5 : c[k] < c[k + 1]
    /\ Cardinality(Numbers(c)) = 6

C4_StructuralValidity ==
    /\ \A c \in InFlight \cup Accepted : StructurallyValid(c)
    /\ Succeeded => \A c \in ReturnedCombinations : StructurallyValid(c)

(* a returned batch holding a combination that is only ever drawn unsorted *)
C4_Witness ==
    /\ Succeeded
    /\ ComboB \in ReturnedCombinations

(* C5: every combination handed out by generate_combination, and every
   combination of a batch, is not an extreme pattern: it has no run of five
   consecutive numbers, is not an arithmetic progression of gap > 1, has a
   sum within 80..200, mixes odd and even numbers, and has fewer than five
   numbers in each of the buckets 1-10, 11-20, 21-30, 31-40, 41-45. *)
HasLongRun(c) ==
    \E x \in Numbers(c) : { x + 1, x + 2, x + 3, x + 4 } \subseteq Numbers(c)

IsProgression(c) ==
    /\ c[2] - c[1] > 1
    /\ \A k \in 2..5 : c[k + 1] - c[k] = c[2] - c[1]

SumOf(c) == c[1] + c[2] + c[3] + c[4] + c[5] + c[6]

SingleParity(c) ==
    \/ \A x \in Numbers(c) : x % 2 = 0
    \/ \A x \in Numbers(c) : x % 2 = 1

Buckets == { 1..10, 11..20, 21..30, 31..40, 41..45 }

Concentrated(c) ==
    \E bucket \in Buckets : Cardinality(Numbers(c) \cap bucket) >= 5

NonExtreme(c) ==
    /\ ~ HasLongRun(c)
    /\ ~ IsProgression(c)
    /\ SumOf(c) >= 80 /\ SumOf(c) <= 200
    /\ ~ SingleParity(c)
    /\ ~ Concentrated(c)
    /\ is_extreme_pattern(c) = FALSE

C5_NonExtreme ==
    /\ \A c \in InFlight \cup Accepted : NonExtreme(c)
    /\ Succeeded => \A c \in ReturnedCombinations : NonExtreme(c)

(* the sampler has drawn an extreme candidate, dropped it and is about to
   draw again: first slot, no retry counted, the index not yet asked *)
C5_Witness ==
    /\ pc = "sample"
    /\ sampler_called
    /\ ~ checker_called
    /\ retry_count = 0
    /\ i = 0

(* C6: a call whose count is not an integer, or an integer outside 1..20,
   ends at once with ValidationError ("must be an integer", respectively
   "must be between 1 and 20"): nothing is sampled, is_duplicate is not
   called, and _winning_cache and _cache_timestamp keep their values. *)
NotInteger(n) == n.type \notin {"int", "bool"}

OutOfRange(n) == n.type \in {"int", "bool"} /\ (n.val < 1 \/ n.val > 20)

C6_ValidationStep ==
    (pc = "idle" /\ pc' # "idle" /\ ~ ValidCount(Val(num_predictions'))) =>
        /\ pc' = "done"
        /\ outcome' = "ValidationError"
        /\ NotInteger(Val(num_predictions')) => message' = "must be an integer"
        /\ OutOfRange(Val(num_predictions')) =>
               message' = "must be between 1 and 20"
        /\ returned' = None
        /\ ~ sampler_called'
        /\ ~ checker_called'
        /\ combination' = None
        /\ winning_cache' = winning_cache
        /\ cache_timestamp' = cache_timestamp
        /\ existing_combinations' = existing_combinations

C6_ValidationError == [][C6_ValidationStep]_vars

(* count 21 rejected while the cache is populated *)
C6_Witness ==
    /\ Finished
    /\ outcome = "ValidationError"
    /\ message = "must be between 1 and 20"
    /\ Requested.val = 21
    /\ winning_cache # None

(* C7: when a slot uses up its max_retries attempts the call ends with
   PredictionGenerationError: nothing is returned although earlier slots
   may have been accepted, and the failing slot is the last one worked on. *)
C7_ExhaustionFailsWhole ==
    /\ retry_count >= max_retries =>
          /\ retry_count = max_retries
          /\ Finished
          /\ outcome = "PredictionGenerationError"
    /\ outcome = "PredictionGenerationError" =>
          /\ Finished
          /\ retry_count = max_retries
          /\ returned = None
          /\ combination = None
          /\ Len(predictions) = i
          /\ i < Requested.val

(* the second slot fails after the first was accepted *)
C7_Witness ==
    /\ outcome = "PredictionGenerationError"
    /\ Len(predictions) = 1
    /\ returned = None

(* C8 as claimed: for a count in 1..20, when is_duplicate answers False for
   every candidate, the call succeeds and returns count predictions. *)
C8_Original ==
    (Finished /\ ValidCount(Requested) /\ ~ reported_duplicate) =>
        /\ outcome = "ok"
        /\ Len(Val(returned)) = Requested.val

(* C8 amended: when is_duplicate answers False for every candidate,
   generate(1) succeeds; for a larger count the call either returns count
   predictions or raises PredictionGenerationError in a slot after the
   first, whose max_retries candidates all repeated accepted combinations. *)
C8_SucceedsUnlessRepeats ==
    (Finished /\ ValidCount(Requested) /\ ~ reported_duplicate) =>
        \/ /\ outcome = "ok"
           /\ Len(Val(returned)) = Requested.val
        \/ /\ outcome = "PredictionGenerationError"
           /\ Requested.val >= 2
           /\ i >= 1
           /\ retry_count = max_retries

C8_Witness ==
    /\ Succeeded
    /\ checker_called
    /\ ~ reported_duplicate
    /\ Len(Val(returned)) = MaxCount

(* C9: is_duplicate answers True for every argument whose length is not 6,
   the empty one included, without calling the provider and without
   changing _winning_cache or _cache_timestamp. *)
C9_MalformedStep ==
    (last_query' # None /\ Len(Val(last_query')) # 6) =>
        /\ last_answer' = TRUE
        /\ last_fetch' = "none"
        /\ winning_cache' = winning_cache
        /\ cache_timestamp' = cache_timestamp

C9_MalformedIsDuplicate == [][C9_MalformedStep]_vars

(* a five-element argument answered True while the cache is still empty *)
C9_Witness ==
    /\ last_query # None
    /\ Len(Val(last_query)) = 5
    /\ last_answer = TRUE
    /\ winning_cache = None

(* C10: in any state of the cache, is_duplicate gives the same answer for
   two arguments that are orderings of the same six numbers, whether the
   provider answers or fails. *)
SameSixNumbers(a, b) ==
    /\ Len(a) = 6
    /\ Len(b) = 6
    /\ Cardinality(Numbers(a)) = 6
    /\ Numbers(a) = Numbers(b)

C10_OrderIndependent ==
    \A a, b \in QueryInputs :
        SameSixNumbers(a, b) =>
            \A fetch_ok \in BOOLEAN :
                is_duplicate(a, winning_cache, cache_timestamp, now,
                             fetch_ok).answer
                = is_duplicate(b, winning_cache, cache_timestamp, now,
                               fetch_ok).answer

(* a descending argument answered True from a populated cache *)
C10_Witness ==
    /\ last_query = Some(<< 42, 35, 28, 23, 14, 7 >>)
    /\ last_answer = TRUE
    /\ last_fetch # "failed"
    /\ winning_cache # None

----------------------------------------------------------------------------
(* a step that is a call of the given operation on the index *)
CallStep(op) == last_op' = op /\ last_query' # None /\ now' = now

(* C11: when the provider raises while is_duplicate refreshes the cache for
   a six-element argument, is_duplicate returns True and no exception
   leaves the call. *)
C11_ProviderFailureIsDuplicate ==
    (last_op = "is_duplicate" /\ last_fetch = "failed") =>
        /\ last_query # None
        /\ Len(Val(last_query)) = 6
        /\ last_answer = TRUE
        /\ ~ last_raised

(* a six-element argument never drawn, answered True after the provider
   raised *)
C11_Witness ==
    /\ last_op = "is_duplicate"
    /\ last_query = Some(<< 1, 2, 3, 4, 5, 6 >>)
    /\ last_fetch = "failed"
    /\ provider_failed
    /\ last_answer = TRUE
    /\ ~ last_raised

(* C12: is_new_combination returns the negation of what is_duplicate
   returns for the same argument in the same state of the cache and of the
   provider; for an argument of the wrong length and for a failing provider
   it returns False. *)
C12_NegationStep ==
    CallStep("is_new_combination") =>
        LET q == Val(last_query')
        IN  /\ \E fetch_ok \in BOOLEAN :
                  LET d == is_duplicate(q, winning_cache, cache_timestamp,
                                        now, fetch_ok)
                  IN  /\ last_fetch' = d.fetch
                      /\ winning_cache' = d.cache
                      /\ cache_timestamp' = d.timestamp
                      /\ last_raised' = d.raised
                      /\ last_answer' = ~ d.answer
            /\ Len(q) # 6 => last_answer' = FALSE
            /\ last_fetch' = "failed" => last_answer' = FALSE

C12_IsNewIsNotDuplicate == [][C12_NegationStep]_vars

(* a combination the provider has since drawn, still answered new from the
   populated cache that does not hold it *)
C12_Witness ==
    /\ last_op = "is_new_combination"
    /\ last_query = Some(<< 41, 3, 27, 11, 34, 19 >>)
    /\ last_answer = TRUE
    /\ last_fetch = "none"
    /\ winning_cache = Some({ ComboA })
    /\ ComboB \in existing_combinations

(* C13: for six distinct numbers of 1..45 listed in any order,
   is_extreme_pattern returns True exactly when one of the five rules holds
   on the numbers: five or more consecutive numbers; the six numbers in
   arithmetic progression with a gap above 1; a sum below 80 or above 200;
   all odd or all even; five or more numbers in one of the buckets 1-10,
   11-20, 21-30, 31-40, 41-45. The answer depends on the numbers only, not
   on their order. *)
RuleRun(S) == \E x \in S : { x + 1, x + 2, x + 3, x + 4 } \subseteq S

RuleProgression(S) ==
    \E m \in S : \E g \in 2..9 : S = { m + k * g : k \in 0..5 }

RECURSIVE SetSum(_)
SetSum(S) ==
    IF S = {} THEN 0 ELSE LET x == CHOOSE y \in S : TRUE IN x + SetSum(S \ { x })

RuleSum(S) == SetSum(S) < 80 \/ SetSum(S) > 200

RuleParity(S) == (\A x \in S : x % 2 = 0) \/ (\A x \in S : x % 2 = 1)

RuleBucket(S) == \E bucket \in Buckets : Cardinality(S \cap bucket) >= 5

FiveRules(S) ==
    RuleRun(S) \/ RuleProgression(S) \/ RuleSum(S) \/ RuleParity(S) \/ RuleBucket(S)

C13_ExtremeIffFiveRules ==
    pattern_result # None =>
        /\ Cardinality(Numbers(Val(pattern_input))) = 6
        /\ Val(pattern_result) = FiveRules(Numbers(Val(pattern_input)))

(* a progression of gap 5 listed in descending order: no other rule holds,
   and the answer is True *)
C13_Witness ==
    /\ pattern_input = Some(<< 30, 25, 20, 15, 10, 5 >>)
    /\ pattern_result = Some(TRUE)
    /\ ~ RuleRun({ 5, 10, 15, 20, 25, 30 })
    /\ ~ RuleSum({ 5, 10, 15, 20, 25, 30 })
    /\ ~ RuleParity({ 5, 10, 15, 20, 25, 30 })
    /\ ~ RuleBucket({ 5, 10, 15, 20, 25, 30 })

(* a step that is a call of is_duplicate, directly or through
   is_new_combination *)
QueryStep ==
    /\ last_op' \in { "is_duplicate", "is_new_combination" }
    /\ last_query' # None
    /\ now' = now

SixQueryStep == QueryStep /\ Len(Val(last_query')) = 6

(* the cache holds a snapshot whose age is at most the TTL *)
FreshCache ==
    /\ winning_cache # None
    /\ cache_timestamp # None
    /\ now - Val(cache_timestamp) <= cache_ttl

(* the cache holds a snapshot older than the TTL *)
StaleCache ==
    /\ winning_cache # None
    /\ cache_timestamp # None
    /\ now - Val(cache_timestamp) > cache_ttl

(* C14: clear_cache leaves both _winning_cache and _cache_timestamp None,
   and with the cache empty the next six-element query calls the provider,
   however recently the dropped snapshot had been built. *)
C14_ClearStep ==
    /\ (last_op' = "clear_cache" /\ now' = now) =>
           /\ winning_cache' = None
           /\ cache_timestamp' = None
    /\ (winning_cache = None /\ SixQueryStep) =>
           /\ last_fetch' # "none"
           /\ fetch_count' = fetch_count + 1

C14_ClearForcesRefresh == [][C14_ClearStep]_vars

(* built, cleared and fetched again within the same hour: two provider calls *)
C14_Witness ==
    /\ cache_cleared
    /\ ~ provider_failed
    /\ now = 0
    /\ fetch_count = 2
    /\ last_fetch = "ok"
    /\ winning_cache # None
    /\ cache_timestamp = Some(0)

(* C15 as claimed: while the cache holds a snapshot of age at most the TTL,
   a query does not call the provider and leaves _winning_cache and
   _cache_timestamp unchanged; on a new index, within the first TTL and
   without clear_cache, the first six-element query calls the provider and
   no other query does: the provider is called exactly once. *)
C15_OriginalStep ==
    /\ (FreshCache /\ QueryStep) =>
           /\ last_fetch' = "none"
           /\ winning_cache' = winning_cache
           /\ cache_timestamp' = cache_timestamp
           /\ fetch_count' = fetch_count
    /\ (fetch_count = 0 /\ SixQueryStep) => fetch_count' = 1
    /\ (~ cache_cleared' /\ now' <= cache_ttl) => fetch_count' <= 1

C15_Original == [][C15_OriginalStep]_vars

(* C15 amended: while the cache holds a snapshot of age at most the TTL, a
   query does not call the provider and leaves _winning_cache and
   _cache_timestamp unchanged; on a new index, within the first TTL and
   without clear_cache, the first six-element query calls the provider, a
   six-element query calls it once more as long as the cache is empty,
   which it stays exactly when the call raises, and no query calls it once
   a call has answered: the provider is called once for every failed fetch
   and once more for the fetch that succeeds, so exactly once when it
   never raises. *)
C15_FreshStep ==
    /\ (FreshCache /\ QueryStep) =>
           /\ last_fetch' = "none"
           /\ winning_cache' = winning_cache
           /\ cache_timestamp' = cache_timestamp
           /\ fetch_count' = fetch_count
    /\ (fetch_count = 0 /\ SixQueryStep) => fetch_count' = 1
    /\ (~ cache_cleared' /\ ~ provider_failed' /\ now' <= cache_ttl) =>
           fetch_count' = IF winning_cache' = None THEN 0 ELSE 1
    /\ (~ cache_cleared' /\ now' <= cache_ttl /\ SixQueryStep) =>
           IF winning_cache = None
           THEN /\ fetch_count' = fetch_count + 1
                /\ last_fetch' \in { "ok", "failed" }
                /\ (last_fetch' = "failed") <=> (winning_cache' = None)
                /\ last_fetch' = "failed" => provider_failed'
           ELSE /\ fetch_count' = fetch_count
                /\ last_fetch' = "none"
                /\ winning_cache' = winning_cache
    /\ (~ cache_cleared' /\ now' <= cache_ttl /\ fetch_count' > 1) =>
           provider_failed'

C15_FreshCacheNoFetch == [][C15_FreshStep]_vars

(* a new index whose first fetch raised and whose second fetch answered:
   a six-element query at an age of exactly the TTL is answered from the
   snapshot, after two provider calls *)
C15_Witness ==
    /\ fetch_count = 2
    /\ provider_failed
    /\ ~ cache_cleared
    /\ cache_timestamp = Some(0)
    /\ now = cache_ttl
    /\ last_query # None
    /\ Len(Val(last_query)) = 6
    /\ last_fetch = "none"

(* C16: with a snapshot older than the TTL, a six-element query calls the
   provider once; when the provider answers, _winning_cache becomes the
   fetched set and _cache_timestamp the current time in the same call, and
   when it raises neither changes; a snapshot of age exactly the TTL is not
   refreshed. *)
C16_StaleStep ==
    /\ (StaleCache /\ SixQueryStep) =>
           /\ fetch_count' = fetch_count + 1
           /\ last_fetch' \in { "ok", "failed" }
           /\ last_fetch' = "ok" =>
                  /\ winning_cache' = Some(existing_combinations)
                  /\ cache_timestamp' = Some(now)
           /\ last_fetch' = "failed" =>
                  /\ winning_cache' = winning_cache
                  /\ cache_timestamp' = cache_timestamp
    /\ ( /\ winning_cache # None
         /\ cache_timestamp # None
         /\ now - Val(cache_timestamp) = cache_ttl
         /\ QueryStep ) =>
           /\ last_fetch' = "none"
           /\ fetch_count' = fetch_count
           /\ winning_cache' = winning_cache
           /\ cache_timestamp' = cache_timestamp

C16_StaleRefresh == [][C16_StaleStep]_vars

(* a snapshot built at hour 0 replaced at hour 2 by the provider's new set
   with the new time *)
C16_Witness ==
    /\ now = cache_ttl + 1
    /\ fetch_count = 2
    /\ ~ cache_cleared
    /\ ~ provider_failed
    /\ last_fetch = "ok"
    /\ winning_cache = Some(existing_combinations)
    /\ winning_cache # Some({ ComboA })
    /\ cache_timestamp = Some(now)

(* steps of a running generate_predictions call *)
SampleStep == pc = "sample" /\ now' = now

CheckStep == pc = "check" /\ now' = now

BatchStep == pc = "batch" /\ now' = now

(* C17: an exception of the provider never reaches the caller of
   generate_predictions: a provider failure during the duplicate check of a
   slot counts as one retry of that slot, like a historical duplicate, and
   the call goes on; a call ends only with the requested number of
   combinations, with ValidationError or with PredictionGenerationError for
   exhausted retries. *)
C17_FailureStep ==
    /\ (CheckStep /\ last_fetch' = "failed") =>
           /\ ~ last_raised'
           /\ last_answer' = TRUE
           /\ retry_count' = retry_count + 1
           /\ predictions' = predictions
           /\ i' = i
           /\ IF retry_count + 1 < max_retries
              THEN pc' = "sample" /\ outcome' = "none"
              ELSE pc' = "done" /\ outcome' = "PredictionGenerationError"
    /\ Finished' =>
           /\ outcome' \in { "ok", "ValidationError", "PredictionGenerationError" }
           /\ outcome' = "ok" =>
                  /\ returned' # None
                  /\ Len(Val(returned')) = Val(num_predictions').val
           /\ outcome' = "PredictionGenerationError" =>
                  message' = "max retries exceeded"

C17_ProviderErrorsAbsorbed == [][C17_FailureStep]_vars

(* the provider failed during the check of the second slot: one retry is
   counted, the first slot is kept and the call samples again *)
C17_Witness ==
    /\ pc = "sample"
    /\ last_fetch = "failed"
    /\ ~ last_raised
    /\ i = 1
    /\ retry_count = 1
    /\ Len(predictions) = 1
    /\ outcome = "none"

(* C18: the retry budget belongs to the slot: every slot starts with
   retry_count 0 whatever the earlier slots rejected, at most max_retries
   candidates are sampled for it, a candidate accepted on the
   max_retries-th attempt is kept, and when a slot is given up is_duplicate
   has been called exactly max_retries times for it. *)
C18_BudgetStep ==
    /\ i' = i + 1 => retry_count' = 0 /\ slot_checks' = 0
    /\ (pc = "idle" /\ pc' = "sample") => retry_count' = 0 /\ slot_checks' = 0
    /\ pc' \in { "sample", "check", "batch" } => retry_count' < max_retries
    /\ pc' = "check" => slot_checks' < max_retries
    /\ ( /\ BatchStep
         /\ retry_count = max_retries - 1
         /\ Val(combination) \notin generated_combinations ) =>
           /\ Len(predictions') = Len(predictions) + 1
           /\ outcome' # "PredictionGenerationError"
    /\ (Finished' /\ outcome' = "PredictionGenerationError") =>
           /\ retry_count' = max_retries
           /\ slot_checks' = max_retries

C18_PerSlotBudget == [][C18_BudgetStep]_vars

(* the second slot accepted on its hundredth attempt *)
C18_Witness ==
    /\ Succeeded
    /\ i = 1
    /\ retry_count = max_retries - 1
    /\ slot_checks = max_retries
    /\ Len(Val(returned)) = 2

(* C19: in a slot every sampled candidate goes through one is_duplicate
   call; it is accepted exactly when is_duplicate answered False and its
   tuple is not in generated_combinations; the in-batch test is made only
   after is_duplicate answered False; either rejection adds one to the
   slot's retry_count, so that the is_duplicate calls of a slot are its
   rejections plus its accepted candidate. *)
C19_CandidateStep ==
    /\ SampleStep =>
           /\ slot_checks' = slot_checks
           /\ retry_count' = retry_count
           /\ predictions' = predictions
    /\ CheckStep =>
           /\ slot_checks' = slot_checks + 1
           /\ last_query' = combination
           /\ predictions' = predictions
           /\ IF last_answer'
              THEN retry_count' = retry_count + 1 /\ pc' \in { "sample", "done" }
              ELSE retry_count' = retry_count /\ pc' = "batch"
                   /\ combination' = combination
    /\ BatchStep =>
           /\ last_query' = None
           /\ winning_cache' = winning_cache
           /\ cache_timestamp' = cache_timestamp
           /\ IF Val(combination) \in generated_combinations
              THEN /\ retry_count' = retry_count + 1
                   /\ slot_checks' = slot_checks
                   /\ predictions' = predictions
                   /\ generated_combinations' = generated_combinations
              ELSE /\ predictions' =
                          Append(predictions, LottoPrediction(Val(combination)))
                   /\ generated_combinations' =
                          generated_combinations \cup { Val(combination) }
    /\ pc' = "batch" =>
           /\ last_answer' = FALSE
           /\ last_query' = combination'
           /\ slot_checks' = retry_count' + 1
    /\ pc' \in { "sample", "check" } => slot_checks' = retry_count'
    /\ (Finished' /\ outcome' = "ok") => slot_checks' = retry_count' + 1

C19_CheckedOnceThenBatch == [][C19_CandidateStep]_vars

(* the second slot's first candidate passed is_duplicate and was rejected
   as a repeat of the first slot: one call, one retry, no historical
   duplicate reported in this call *)
C19_Witness ==
    /\ pc = "sample"
    /\ i = 1
    /\ retry_count = 1
    /\ slot_checks = 1
    /\ checker_called
    /\ ~ reported_duplicate
    /\ Len(predictions) = 1

(* C20: slots are filled in order, the candidate for the next slot being
   sampled only after the current slot is accepted, and the returned list
   holds the combinations in the order of their acceptance. *)
C20_OrderStep ==
    /\ pc' \in { "sample", "check", "batch" } => Len(predictions') = i'
    /\ i' \in { i, i + 1, 0 }
    /\ i' = i + 1 =>
           /\ BatchStep
           /\ predictions' =
                  Append(predictions, LottoPrediction(Val(combination)))
    /\ (pc \in { "sample", "check", "batch" } /\ i' = i /\ pc' # "done") =>
           predictions' = predictions
    /\ (Finished' /\ outcome' = "ok") =>
           /\ returned' = Some(predictions')
           /\ \/ predictions' = predictions
              \/ /\ BatchStep
                 /\ predictions' =
                        Append(predictions, LottoPrediction(Val(combination)))

C20_AcceptanceOrder == [][C20_OrderStep]_vars

(* a result whose second combination is the smaller one: it was accepted
   second *)
C20_Witness ==
    /\ Succeeded
    /\ Val(returned) = << LottoPrediction(ComboA), LottoPrediction(ComboB) >>
    /\ i = 1

----------------------------------------------------------------------------
(* two is_duplicate calls gathered while the cache was missing or expired *)
GatheredOnExpired ==
    \A t \in TaskIds :
        /\ tasks[t].op = "is_duplicate"
        /\ tasks[t].gathered # None
        /\ Val(tasks[t].gathered).expired

(* the call of task t has run, in the hour of the gather *)
RanAtGather(t) ==
    /\ tasks[t].state = "done"
    /\ Val(tasks[t].out).at = Val(tasks[t].gathered).at

FetchOf(t) == Val(tasks[t].out).fetch

(* the run of the pending call of task t is a run that calls the provider *)
FetchingRun(t) ==
    /\ run_is_duplicate(t)
    /\ Val(tasks'[t].out).fetch # "none"

(* C21 as stated: after one of two concurrent callers has found the cache
   missing or expired, the other one can still call the provider. *)
C21_Original ==
    \A t, u \in TaskIds :
        ( /\ GatheredOnExpired
          /\ RanAtGather(u)
          /\ FetchOf(u) # "none"
          /\ tasks[t].state = "pending"
          /\ now = Val(tasks[t].gathered).at )
        => ENABLED FetchingRun(t)

(* C21: of two is_duplicate calls gathered on one event loop while the
   cache is missing or expired, the one that runs first calls the provider
   and, when the provider answers, the other one is answered from the
   refreshed cache; both call the provider only when the first call's
   fetch raised. *)
C21_SecondFetchOnlyAfterFailure ==
    ( /\ GatheredOnExpired
      /\ \A t \in TaskIds : RanAtGather(t) )
    => /\ \E t \in TaskIds : FetchOf(t) # "none"
       /\ \A t, u \in TaskIds :
              (t # u /\ FetchOf(t) = "none") => FetchOf(u) = "ok"
       /\ (\A t \in TaskIds : FetchOf(t) # "none")
              => \E t \in TaskIds : FetchOf(t) = "failed"

(* both callers were gathered on an empty cache; the provider answered the
   first one and the second did not call it *)
C21_Witness ==
    /\ GatheredOnExpired
    /\ \A t \in TaskIds : RanAtGather(t)
    /\ FetchOf(1) = "ok"
    /\ FetchOf(2) = "none"
    /\ winning_cache # None

(* the generate_predictions call of task t has returned normally *)
TaskSucceeded(t) ==
    /\ tasks[t].op = "generate_predictions"
    /\ tasks[t].state = "done"
    /\ Val(tasks[t].out).outcome = "ok"

TaskReturned(t) == Val(tasks[t].out).returned

TaskCombinations(t) ==
    { TaskReturned(t)[k].combination : k \in 1..Len(TaskReturned(t)) }

(* C22: generate_predictions calls gathered on one service have their own
   predictions, generated_combinations and retry_count: each call that
   returns gives exactly the count it was asked for, all distinct, and a
   call rejects a candidate as a repeat only when the call itself has
   accepted it, whatever the other calls have returned. *)
C22_CallsIndependent ==
    /\ \A t \in TaskIds :
           TaskSucceeded(t) =>
               /\ Len(TaskReturned(t)) = Val(tasks[t].arg).val
               /\ Cardinality(TaskCombinations(t)) = Len(TaskReturned(t))
    /\ (pc \in { "sample", "check", "batch" } /\ i = 0) =>
           generated_combinations = {} /\ retry_count < max_retries
    /\ (pc = "batch" /\ in_batch(Val(combination), generated_combinations)) =>
           Val(combination) \in Accepted
    /\ pc \in { "sample", "check", "batch", "done" } =>
           \E t \in TaskIds : /\ tasks[t].state = "running"
                              /\ num_predictions = tasks[t].arg
                              /\ \A u \in TaskIds \ { t } :
                                     tasks[u].state # "running"

(* two gathered calls both returned, and the combination the first one
   returned is also in the result of the second *)
C22_Witness ==
    /\ TaskSucceeded(1)
    /\ TaskSucceeded(2)
    /\ Val(tasks[1].arg).val = 1
    /\ Val(tasks[2].arg).val = 2
    /\ TaskReturned(1) = << LottoPrediction(ComboA) >>
    /\ TaskReturned(2) = << LottoPrediction(ComboA), LottoPrediction(ComboB) >>

(* the common gap of six numbers in arithmetic progression *)
CommonGap(S) ==
    CHOOSE g \in 1..8 : \E a \in S : S = { a + k * g : k \in 0..5 }

(* C23: six numbers of 1..45 whose five sorted gaps are equal are extreme:
   with a common gap above 1 the arithmetic rule holds, and with gap 1 (six
   consecutive numbers) the long-run rule holds while the arithmetic rule
   does not. *)
C23_EqualGapsExtreme ==
    pattern_result # None =>
        LET c == Val(pattern_input)
            g == CommonGap(Numbers(c))
        IN  /\ \E a \in Numbers(c) : Numbers(c) = { a + k * g : k \in 0..5 }
            /\ Val(pattern_result) = TRUE
            /\ g > 1 => arithmetic_rule(c) /\ ~ long_run_rule(c)
            /\ g = 1 => long_run_rule(c) /\ ~ arithmetic_rule(c)

(* six consecutive numbers, listed in descending order, found extreme by
   the long-run rule *)
C23_Witness ==
    /\ pattern_input = Some(<< 25, 24, 23, 22, 21, 20 >>)
    /\ pattern_result = Some(TRUE)
    /\ long_run_rule(<< 25, 24, 23, 22, 21, 20 >>)
    /\ ~ arithmetic_rule(<< 25, 24, 23, 22, 21, 20 >>)

(* C24: for a six-element argument and a provider that does not raise,
   is_duplicate answers True exactly when the sorted argument is in the
   snapshot the cache holds after the refresh test: every combination of a
   snapshot in use is reported as a duplicate, and after an answer of False
   the cache is populated and does not hold the combination. *)
C24_MembershipStep ==
    /\ ( /\ CallStep("is_duplicate")
         /\ Len(Val(last_query')) = 6
         /\ last_fetch' # "failed" ) =>
           /\ winning_cache' # None
           /\ cache_timestamp' # None
           /\ last_answer' = (sorted(Val(last_query')) \in Val(winning_cache'))
           /\ last_fetch' = "ok" => winning_cache' = Some(existing_combinations)
           /\ last_fetch' = "none" => winning_cache' = winning_cache
    /\ ( /\ CallStep("is_duplicate")
         /\ Len(Val(last_query')) = 6
         /\ last_answer' = FALSE ) =>
           /\ last_fetch' # "failed"
           /\ winning_cache' # None
           /\ sorted(Val(last_query')) \notin Val(winning_cache')
    /\ winning_cache # None =>
           \A c \in Val(winning_cache) :
               LET r == is_duplicate(c, winning_cache, cache_timestamp, now, TRUE)
               IN  r.fetch = "none" => r.answer = TRUE

C24_AnswerIsMembership == [][C24_MembershipStep]_vars

(* the first query of a new index: the provider answered with the set that
   holds the queried draw, given in descending order *)
C24_Witness ==
    /\ last_op = "is_duplicate"
    /\ last_query = Some(<< 42, 35, 28, 23, 14, 7 >>)
    /\ last_answer = TRUE
    /\ last_fetch = "ok"
    /\ fetch_count = 1
    /\ winning_cache = Some({ ComboA })
    /\ cache_timestamp = Some(now)

(* C25: generate_combination counts no attempts and raises nothing: an
   iteration either returns its draw or draws again, drawing again is
   always possible, and with a fair random source the loop ends with a
   combination that passes the pattern test. *)
C25_SampleOnly ==
    SampleStep =>
        /\ pc' \in { "sample", "check" }
        /\ retry_count' = retry_count
        /\ outcome' = outcome
        /\ message' = message
        /\ returned' = returned
        /\ pc' = "check" =>
               combination' # None /\ ~ is_extreme_pattern(Val(combination'))

C25_SamplerTerminates ==
    /\ [][C25_SampleOnly]_vars
    /\ [](pc = "sample" => ENABLED draw_rejected)
    /\ (pc = "sample") ~> (pc = "check")

(* the sampler has returned [7,14,23,28,35,42] for the first slot: no
   retry was counted and nothing was raised *)
C25_Witness ==
    /\ pc = "check"
    /\ combination = Some(ComboA)
    /\ sampler_called
    /\ ~ checker_called
    /\ retry_count = 0
    /\ outcome = "none"

(* C26: while the cache holds a snapshot of age at most the TTL,
   is_duplicate answers a six-element argument by membership in that
   snapshot, whatever set the provider holds by then, and leaves the
   snapshot and its timestamp as they are, so that the same query gets the
   same answer again; a replacement of the provider's set by
   load_historical_data changes neither the snapshot nor its age: only the
   passing of time or clear_cache ends this. *)
C26_SnapshotStep ==
    /\ ( /\ FreshCache
         /\ CallStep("is_duplicate")
         /\ Len(Val(last_query')) = 6 ) =>
           /\ last_answer' = (sorted(Val(last_query')) \in Val(winning_cache))
           /\ last_fetch' = "none"
           /\ winning_cache' = winning_cache
           /\ cache_timestamp' = cache_timestamp
    /\ (FreshCache /\ existing_combinations' # existing_combinations) =>
           /\ winning_cache' = winning_cache
           /\ cache_timestamp' = cache_timestamp
           /\ now' = now
    /\ (FreshCache /\ now' = now /\ last_op' # "clear_cache") =>
           /\ winning_cache' = winning_cache
           /\ cache_timestamp' = cache_timestamp

C26_AnswersFromSnapshot == [][C26_SnapshotStep]_vars

(* the provider has loaded the draw 3,11,19,27,34,41 since the snapshot was
   built, and a query for it within the TTL is still answered False *)
C26_Witness ==
    /\ FreshCache
    /\ winning_cache = Some({ ComboA })
    /\ ComboB \in existing_combinations
    /\ last_op = "is_duplicate"
    /\ last_query = Some(<< 41, 3, 27, 11, 34, 19 >>)
    /\ last_answer = FALSE
    /\ last_fetch = "none"

(* C27: when the provider raises during a refresh, _winning_cache and
   _cache_timestamp keep the values they had, empty or stale; is_duplicate
   answers True without looking at the stale snapshot, and since the cache
   is still missing or expired the six-element query that follows calls the
   provider again. *)
C27_FailedFetchStep ==
    /\ (SixQueryStep /\ last_fetch' = "failed") =>
           /\ winning_cache' = winning_cache
           /\ cache_timestamp' = cache_timestamp
           /\ ~ last_raised'
           /\ last_answer' = (last_op' = "is_duplicate")
           /\ cache_expired(winning_cache', cache_timestamp', now')
    /\ (last_fetch = "failed" /\ SixQueryStep) =>
           /\ last_fetch' \in { "ok", "failed" }
           /\ fetch_count' = fetch_count + 1

C27_FailedFetchKeepsCache == [][C27_FailedFetchStep]_vars

(* the snapshot of hour 0 is stale at hour 2 and the provider raises twice:
   the query for 3,11,19,27,34,41, which the stale snapshot does not hold,
   is answered True, and the snapshot and its timestamp are still there *)
C27_Witness ==
    /\ StaleCache
    /\ winning_cache = Some({ ComboA })
    /\ cache_timestamp = Some(0)
    /\ last_op = "is_duplicate"
    /\ last_query = Some(<< 41, 3, 27, 11, 34, 19 >>)
    /\ last_fetch = "failed"
    /\ last_answer = TRUE
    /\ fetch_count = 3

(* C28: _winning_cache and _cache_timestamp are None together or set
   together in every state of the index: after __init__, after a refresh
   that succeeded or failed, after a query that was rejected for its length
   and after clear_cache. *)
C28_CacheAndTimestampTogether ==
    (winning_cache = None) <=> (cache_timestamp = None)

(* built, cleared, and then a refresh that failed on the empty cache: both
   fields are still None *)
C28_Witness ==
    /\ cache_cleared
    /\ provider_failed
    /\ fetch_count = 2
    /\ last_fetch = "failed"
    /\ last_query # None
    /\ winning_cache = None
    /\ cache_timestamp = None

(* a step of a generate_predictions call, from its first line to its
   return *)
GenerateStep == pc # "idle" \/ pc' # "idle"

(* C29: no step of a generate_predictions call changes the provider's set;
   a step changes _winning_cache or _cache_timestamp only as the refresh of
   a missing or expired cache inside is_duplicate, to the provider's set and
   the current time; a call starts with empty predictions and
   generated_combinations whatever earlier calls returned, and its return
   writes neither the provider's set nor the cache. *)
C29_FrameStep ==
    /\ GenerateStep => existing_combinations' = existing_combinations
    /\ (GenerateStep /\ << winning_cache', cache_timestamp' >>
                            # << winning_cache, cache_timestamp >>) =>
           /\ pc = "check"
           /\ last_op' = "is_duplicate"
           /\ last_fetch' = "ok"
           /\ cache_expired(winning_cache, cache_timestamp, now)
           /\ winning_cache' = Some(existing_combinations)
           /\ cache_timestamp' = Some(now)
    /\ (pc = "idle" /\ pc' = "sample") =>
           /\ generated_combinations' = {}
           /\ predictions' = << >>
    /\ (pc = "done" /\ pc' = "idle") =>
           /\ generated_combinations' = {}
           /\ predictions' = << >>
           /\ UNCHANGED << existing_combinations, winning_cache, cache_timestamp >>

C29_GenerateWritesNothing == [][C29_FrameStep]_vars

(* two calls for one combination each both returned 3,11,19,27,34,41, which
   neither the provider's set nor the cache holds after they returned *)
C29_Witness ==
    /\ tasks_quiet
    /\ pc = "idle"
    /\ TaskSucceeded(1)
    /\ TaskSucceeded(2)
    /\ TaskReturned(1) = << LottoPrediction(ComboB) >>
    /\ TaskReturned(2) = << LottoPrediction(ComboB) >>
    /\ ComboB \notin existing_combinations
    /\ winning_cache # None
    /\ ComboB \notin Val(winning_cache)

(* the slots of the running call whose combination has been accepted *)
CompletedSlots == IF pc = "done" /\ outcome = "ok" THEN i + 1 ELSE i

(* C30: during a generate_predictions call generated_combinations is the
   set of the combinations in predictions, and its size is the length of
   predictions and the number of slots completed so far; an accepted
   combination is added to the set only when it is not yet in it, and
   together with its LottoPrediction at the end of predictions. *)
C30_SetMatchesList ==
    /\ generated_combinations = Accepted
    /\ Cardinality(generated_combinations) = Len(predictions)
    /\ pc # "idle" => Len(predictions) = CompletedSlots

C30_AddStep ==
    (generated_combinations' # generated_combinations /\ pc' # "idle") =>
        /\ pc = "batch"
        /\ Val(combination) \notin generated_combinations
        /\ generated_combinations' =
               generated_combinations \cup { Val(combination) }
        /\ predictions' = Append(predictions, LottoPrediction(Val(combination)))

C30_AcceptedSetInvariant == [] C30_SetMatchesList /\ [][C30_AddStep]_vars

(* the second slot drew the combination of the first slot again: the
   checker passed it, the in-batch test rejected it, and the set and the
   list still hold that one combination *)
C30_Witness ==
    /\ pc = "sample"
    /\ i = 1
    /\ retry_count = 1
    /\ slot_checks = 1
    /\ ~ reported_duplicate
    /\ generated_combinations = { ComboB }
    /\ predictions = << LottoPrediction(ComboB) >>
====
